---- MODULE Spec2Model ----
(***************************************************************************)
(* Model of the file-upload service of cmd/main.go: the process start-up   *)
(* and shutdown of main, the middleware chain main composes around the     *)
(* mux, the /add upload handler and the prepared insert it executes.       *)
(*                                                                         *)
(* A request is served by one goroutine.  Everything a handler does on its *)
(* own ResponseWriter is local to that goroutine and is computed by the    *)
(* operators below; the steps that touch state shared between goroutines   *)
(* (the files table, the request context, the process) are the actions.    *)
(***************************************************************************)
EXTENDS Integers, Sequences, FiniteSets, TLC

\* ------------------------------------------------------------------ bounds

\* Largest file part a client submits, in bytes.
MaxLen == 2

\* The connections the server handles concurrently.
Conns == {"c1", "c2"}

\* --------------------------------------------------------------- constants

\* main.go:115, the literal handed to Auth.
Secret == "your-secret-here"

\* main.go:70, the maxMemory argument of ParseMultipartForm (10 << 20 bytes),
\* scaled to the byte counts of this model: a part of more than MaxMemory
\* bytes does not fit the in-memory budget.
MaxMemory == 1

\* The bytes of "hello"; a submitted content is a prefix of it.
Payload == <<104, 101, 108, 108, 111>>

Contents == {SubSeq(Payload, 1, n) : n \in 0..MaxLen}

\* A submitted filename, as its path elements: "a.txt" and "docs/a.txt".
Filenames == {<<"a.txt">>, <<"docs", "a.txt">>}

Methods == {"POST", "GET", "OPTIONS"}

Paths == {"/add", "/other"}

\* Header.Get("Authorization"): "" when the header is missing.
AuthValues == {Secret, "wrong-secret", ""}

\* What the temporary storage does for a part that does not fit in memory.
DiskOutcomes == {"ok", "createFail", "readFail"}

\* Errors the statement execution reports.
DbErrors == {"connection lost", "constraint violation"}

CtxCanceled == "context canceled"

\* main.go:145-146, CREATE TABLE IF NOT EXISTS ... id SERIAL: the table may
\* exist from earlier runs, so the sequence of files.id stands at 1 or at
\* any later value when the process starts (55296 is 0xD800).
StartIds == {1, 55296}

\* What the environment variable "auth" holds: "" when it is not set.
EnvAuthValues == {"", "env-secret"}

\* internal/config/config.go:14-26, LoadConfig for an environment whose .env
\* file loads and whose variable "auth" is env: the variable, or the literal
\* "default" when it is empty.
LoadConfig(env) ==
    [AuthSecret |-> IF env = "" THEN "default" ELSE env]

\* ---------------------------------------------------------------- requests

\* A request without a multipart body.
NoBody(m, p, a) ==
    [method |-> m, path |-> p, auth |-> a, wellFormed |-> FALSE, field |-> "none",
     filename |-> <<>>, ctype |-> "", content |-> <<>>, disk |-> "ok"]

\* A well-formed multipart body without any file part.
NoFileBody(m, p, a) ==
    [NoBody(m, p, a) EXCEPT !.wellFormed = TRUE]

\* A well-formed multipart body with one file part in form field fld.
FileBody(m, p, a, fld, fn, c, d) ==
    [method |-> m, path |-> p, auth |-> a, wellFormed |-> TRUE, field |-> fld,
     filename |-> fn, ctype |-> "text/plain", content |-> c, disk |-> d]

\* The requests a client sends.  GET and OPTIONS carry no body; the disk only
\* matters for a part that leaves memory; a file under another field name is
\* represented by one part.
Requests ==
    {NoBody(m, p, a) : m \in Methods, p \in Paths, a \in AuthValues}
    \cup {NoFileBody("POST", p, a) : p \in Paths, a \in AuthValues}
    \cup {FileBody("POST", p, a, "file", fn, c, "ok") :
            p \in Paths, a \in AuthValues, fn \in Filenames, c \in Contents}
    \cup {FileBody("POST", p, a, "file", fn, c, d) :
            p \in Paths, a \in AuthValues, fn \in Filenames,
            c \in {x \in Contents : Len(x) > MaxMemory},
            d \in DiskOutcomes \ {"ok"}}
    \cup {FileBody("POST", p, a, "doc", <<"a.txt">>, <<>>, "ok") :
            p \in Paths, a \in AuthValues}

NoRequest == NoBody("", "", "")

\* --------------------------------------------------------- response writer

\* The ResponseWriter of one request, with the record of what ran:
\* status 0 is "no status written yet"; sent is the header map as it was
\* when the status was written; trace lists the layers and handler steps in
\* the order they were entered; writes lists every WriteHeader call.
W0 ==
    [status |-> 0, headers |-> {}, sent |-> {}, body |-> <<>>, trace |-> <<>>,
     logs |-> <<>>, writes |-> <<>>, panicking |-> FALSE]

Enter(w, layer) == [w EXCEPT !.trace = Append(@, layer)]

Entered(w, layer) == \E k \in 1..Len(w.trace) : w.trace[k] = layer

\* w.Header().Set(k, v)
HeaderSet(w, k, v) ==
    [w EXCEPT !.headers = {p \in @ : p[1] # k} \cup {<<k, v>>}]

\* w.WriteHeader(code): the first call fixes the status and the headers.
WriteHeader(w, who, code) ==
    IF w.status = 0
    THEN [w EXCEPT !.status = code, !.sent = w.headers,
                   !.writes = Append(@, <<who, code>>)]
    ELSE [w EXCEPT !.writes = Append(@, <<who, code>>)]

\* w.Write(b): writes status 200 first when none was written.
Write(w, who, text, rune) ==
    LET w1 == IF w.status = 0 THEN WriteHeader(w, who, 200) ELSE w
    IN  [w1 EXCEPT !.body = Append(@, [text |-> text, rune |-> rune])]

\* http.Error(w, msg, code)
HttpError(w, who, msg, code) ==
    LET h1 == HeaderSet(w, "Content-Type", "text/plain; charset=utf-8")
        h2 == HeaderSet(h1, "X-Content-Type-Options", "nosniff")
    IN  Write(WriteHeader(h2, who, code), who, msg, -1)

\* logger.LogAttrs(ctx, level, msg, attr)
Log(w, level, msg, attr) ==
    [w EXCEPT !.logs = Append(@, [level |-> level, msg |-> msg, attr |-> attr])]

\* ---------------------------------------------------------- upload handler

\* mime/multipart's Part.FileName, which FormFile's header carries: the
\* submitted filename passed through filepath.Base.
FileName(fn) == IF fn = <<>> THEN <<>> ELSE <<fn[Len(fn)]>>

\* ParseMultipartForm as if maxMemory bounded the size of the body.
ParseRejectsLarge(r, maxMemory) ==
    [err |-> ~r.wellFormed \/ Len(r.content) > maxMemory,
     field |-> IF ~r.wellFormed \/ Len(r.content) > maxMemory THEN "none" ELSE r.field,
     onDisk |-> FALSE,
     header |-> [Filename |-> FileName(r.filename),
                 ContentType |-> r.ctype,
                 Size |-> Len(r.content)]]

\* main.go:70, r.ParseMultipartForm(maxMemory): fails on a body that is not
\* multipart form data; a file part of more than maxMemory bytes is moved to
\* a temporary file and fails the parse only when that file cannot be
\* written.  The form maps a field name to the part's FileHeader.
ParseMultipartForm(r, maxMemory) ==
    LET onDisk == r.field # "none" /\ Len(r.content) > maxMemory
        err    == ~r.wellFormed \/ (onDisk /\ r.disk = "createFail")
    IN  [err |-> err,
         field |-> IF err THEN "none" ELSE r.field,
         onDisk |-> ~err /\ onDisk,
         header |-> [Filename |-> FileName(r.filename),
                     ContentType |-> r.ctype,
                     Size |-> Len(r.content)]]

\* FormFile as if it took the form's file whatever its field name.
FormFileAnyField(form, name) == form.field = "none"

\* main.go:77, r.FormFile("file"): ErrMissingFile when the form has no file
\* under that field name.
FormFileErr(form, name) == form.field # name

\* main.go:85, io.ReadAll(file): a part kept in memory always reads; a part
\* on disk reads unless the temporary file fails.
ReadAllErr(r, form) == form.onDisk /\ r.disk = "readFail"

\* The arguments of the insert with the size left at zero.
InsertArgsNoSize(r) ==
    [filename |-> FileName(r.filename), mime_type |-> r.ctype,
     size |-> 0, content |-> r.content]

\* main.go:93-97, the arguments of the insert.
InsertArgs(r) ==
    LET form == ParseMultipartForm(r, MaxMemory)
    IN  [filename |-> form.header.Filename,
         mime_type |-> form.header.ContentType,
         size |-> form.header.Size,
         content |-> r.content]

\* rune(fileID): the conversion of an int to an int32, which leaves the id of
\* a SERIAL column (1 .. 2^31 - 1) as it is.
Rune(i) == i

\* string(rune): the UTF-8 text of one code point, U+FFFD for a value that
\* is no valid code point.
RuneString(c) ==
    IF (0 <= c /\ c < 55296) \/ (57343 < c /\ c <= 1114111) THEN c ELSE 65533

\* The result of insertFileStmt.QueryRowContext(...).Scan(&fileID).
NoOutcome == [kind |-> "err", id |-> 0, err |-> "none"]

\* The method check as if GET were allowed too.
MethodNotAllowedButGet(r) == r.method \notin {"POST", "GET"}

\* main.go:64, r.Method != http.MethodPost
MethodNotAllowed(r) == r.method # "POST"

\* The failure path as if the error's text were sent to the client.
SaveFailedLeaks(w, o) ==
    HttpError(Log(w, "ERROR", "Failed to save file to database", o.err),
              "upload", o.err, 500)

\* main.go:99-103, the gateway call failed with o.err.
SaveFailed(w, o) ==
    HttpError(Log(w, "ERROR", "Failed to save file to database", o.err),
              "upload", "Failed to save file to database", 500)

\* main.go:63-108, the /add handler, for the outcome o of its gateway call.
UploadHandler(r, w, o) ==
    LET w0   == Enter(w, "upload")
        form == ParseMultipartForm(r, MaxMemory)
    IN  IF MethodNotAllowed(r)
        THEN HttpError(w0, "upload", "Method not allowed", 405)
        ELSE IF form.err
        THEN HttpError(Enter(w0, "ParseMultipartForm"), "upload",
                       "Failed to parse form", 400)
        ELSE IF FormFileErr(form, "file")
        THEN HttpError(Enter(Enter(w0, "ParseMultipartForm"), "FormFile"),
                       "upload", "Failed to get file", 400)
        ELSE IF ReadAllErr(r, form)
        THEN HttpError(Enter(Enter(Enter(w0, "ParseMultipartForm"), "FormFile"),
                             "ReadAll"),
                       "upload", "Failed to read file", 500)
        ELSE LET w1 == Enter(Enter(Enter(Enter(w0, "ParseMultipartForm"),
                                         "FormFile"), "ReadAll"),
                             "QueryRowContext")
             IN  CASE o.kind = "panic" -> [w1 EXCEPT !.panicking = TRUE]
                   [] o.kind = "err" -> SaveFailed(w1, o)
                   [] OTHER ->
                        Write(WriteHeader(w1, "upload", 201), "upload",
                              "File uploaded successfully with ID: ",
                              RuneString(Rune(o.id)))

\* main.go:61-63, the ServeMux with the one pattern "/add".
Mux(r, w, o) ==
    IF r.path = "/add"
    THEN UploadHandler(r, Enter(w, "mux"), o)
    ELSE HttpError(Enter(w, "mux"), "mux", "404 page not found", 404)

\* ------------------------------------------------------------- middlewares
\* A middleware wraps the handler next.  XEnter(r, w) is the writer X hands
\* to next; X(r, w, inner) is what X leaves, inner being what next left of
\* XEnter(r, w).

\* main.go:159-171
LoggingEnter(r, w) == Enter(w, "logging")

LoggingMiddleware(r, w, inner) ==
    IF inner.panicking
    THEN inner
    ELSE Log(inner, "INFO", "request completed", r.method)

\* main.go:174-186
CORSEnter(r, w) ==
    HeaderSet(HeaderSet(HeaderSet(Enter(w, "cors"),
        "Access-Control-Allow-Origin", "*"),
        "Access-Control-Allow-Methods", "POST, GET, OPTIONS"),
        "Access-Control-Allow-Headers", "Content-Type")

CORSMiddleware(r, w, inner) ==
    IF r.method = "OPTIONS"
    THEN WriteHeader(CORSEnter(r, w), "cors", 200)
    ELSE inner

\* Recovery as if it wrote its 500 whether or not the chain panicked.
RecoveryAlwaysWrites(r, w, inner) ==
    HttpError([inner EXCEPT !.panicking = FALSE],
              "recovery", "Internal Server Error", 500)

\* Recovery as if it logged the panic and wrote no response.
RecoveryLogsOnly(r, w, inner) ==
    IF inner.panicking
    THEN Log([inner EXCEPT !.panicking = FALSE], "ERROR", "panic recovered", "panic")
    ELSE inner

\* main.go:189-203
RecoveryEnter(r, w) == Enter(w, "recovery")

RecoveryMiddleware(r, w, inner) ==
    IF inner.panicking
    THEN HttpError(Log([inner EXCEPT !.panicking = FALSE],
                       "ERROR", "panic recovered", "panic"),
                   "recovery", "Internal Server Error", 500)
    ELSE inner

\* main.go:204-219
AuthEnter(r, w) == Enter(w, "auth")

\* Auth as if a request without the header were let through.
AuthSkipsMissing(secret, r, w, inner) ==
    IF r.auth # "" /\ r.auth # secret
    THEN HttpError(Log(AuthEnter(r, w), "WARN", "unauthorized access", r.path),
                   "auth", "Unauthorized", 401)
    ELSE inner

Auth(secret, r, w, inner) ==
    IF r.auth # secret
    THEN HttpError(Log(AuthEnter(r, w), "WARN", "unauthorized access", r.path),
                   "auth", "Unauthorized", 401)
    ELSE inner

\* main.go:111-115, the handler main composes, one definition per line.
handler0(r, w, o) == Mux(r, w, o)

handler1(r, w, o) == LoggingMiddleware(r, w, handler0(r, LoggingEnter(r, w), o))

handler2(r, w, o) == CORSMiddleware(r, w, handler1(r, CORSEnter(r, w), o))

handler3(r, w, o) == RecoveryMiddleware(r, w, handler2(r, RecoveryEnter(r, w), o))

handler(r, w, o) == Auth(Secret, r, w, handler3(r, AuthEnter(r, w), o))

\* The response the server sends for request r when the gateway call, if
\* the handler makes one, ends as o.
Response(r, o) == handler(r, W0, o)

\* The request reaches the gateway: the handler calls QueryRowContext.
CallsGateway(r) == Entered(Response(r, NoOutcome), "QueryRowContext")

\* -------------------------------------------------------------------- state

VARIABLES
    mainPc,          \* where main is: ensureTables, prepare, serve, shutdown,
                     \* closeStmt, closeDB
    proc,            \* the process: running, exited (main returned), fatal
                     \* (log.Fatalf: os.Exit(1), deferred calls do not run)
    dbConn,          \* main.go:30, the connection pool: open or closed
    insertFileStmt,  \* main.go:20, the statement handle: nil, prepared, closed
    listener,        \* the server's listener: none, listening, closed
    mainLog,         \* what the deferred calls of main have logged
    files,           \* the rows this process has added to table files
    nextId,          \* the next value of the SERIAL sequence of files.id
    pc,              \* per connection: idle, query, scan, done
    req,             \* per connection: the request being served
    out,             \* per connection: what the gateway call did
    ctxDone,         \* per connection: r.Context() is cancelled
    resp             \* per connection: the response writer when the handler
                     \* chain has returned

vars ==
    <<mainPc, proc, dbConn, insertFileStmt, listener, mainLog, files, nextId,
      pc, req, out, ctxDone, resp>>

mainVars == <<mainPc, proc, dbConn, insertFileStmt, listener, mainLog>>

connVars == <<pc, req, out, ctxDone, resp>>

\* main.go:30-33, the state once sql.Open has returned the pool: an empty
\* table, no request.
Init ==
    /\ mainPc = "ensureTables"
    /\ proc = "running"
    /\ dbConn = "open"
    /\ insertFileStmt = "nil"
    /\ listener = "none"
    /\ mainLog = <<>>
    /\ files = {}
    /\ nextId \in StartIds
    /\ pc = [c \in Conns |-> "idle"]
    /\ req = [c \in Conns |-> NoRequest]
    /\ out = [c \in Conns |-> NoOutcome]
    /\ ctxDone = [c \in Conns |-> FALSE]
    /\ resp = [c \in Conns |-> W0]

InFlight(c) == pc[c] \in {"query", "scan"}

\* log.Fatalf: the process exits at once.
Fatal ==
    /\ proc' = "fatal"
    /\ UNCHANGED <<mainPc, dbConn, insertFileStmt, listener>>

\* ------------------------------------------------------------------- main

\* main.go:42-45 and 143-156
ensureTables ==
    /\ proc = "running" /\ mainPc = "ensureTables"
    /\ \/ /\ mainPc' = "prepare"
          /\ UNCHANGED <<proc, dbConn, insertFileStmt, listener>>
       \/ Fatal
    /\ UNCHANGED <<mainLog, files, nextId, connVars>>

\* main.go:48-54
Prepare ==
    /\ proc = "running" /\ mainPc = "prepare"
    /\ \/ /\ insertFileStmt' = "prepared"
          /\ mainPc' = "serve"
          /\ UNCHANGED <<proc, dbConn, listener>>
       \/ Fatal
    /\ UNCHANGED <<mainLog, files, nextId, connVars>>

\* The listener as if its goroutine were started before the statement is
\* prepared.
ListenBeforePrepare ==
    /\ proc = "running" /\ mainPc \in {"prepare", "serve"} /\ listener = "none"
    /\ \/ /\ listener' = "listening"
          /\ UNCHANGED <<mainPc, proc, dbConn, insertFileStmt>>
       \/ Fatal
    /\ UNCHANGED <<mainLog, files, nextId, connVars>>

\* main.go:123-128, the goroutine that runs server.ListenAndServe.
ListenAndServe ==
    /\ proc = "running" /\ mainPc = "serve" /\ listener = "none"
    /\ \/ /\ listener' = "listening"
          /\ UNCHANGED <<mainPc, proc, dbConn, insertFileStmt>>
       \/ Fatal
    /\ UNCHANGED <<mainLog, files, nextId, connVars>>

\* main.go:130-136, SIGTERM arrives and server.Shutdown closes the listener.
Shutdown ==
    /\ proc = "running" /\ mainPc = "serve"
    /\ mainPc' = "shutdown"
    /\ listener' = "closed"
    /\ UNCHANGED <<proc, dbConn, insertFileStmt, mainLog, files, nextId, connVars>>

\* Shutdown as if it returned nil without waiting for the requests in flight.
ShutdownIgnoresInFlight ==
    /\ proc = "running" /\ mainPc = "shutdown"
    /\ mainPc' = "closeStmt"
    /\ UNCHANGED <<proc, dbConn, insertFileStmt, listener>>
    /\ UNCHANGED <<mainLog, files, nextId, connVars>>

\* main.go:136-139, server.Shutdown returns: nil once no request is in
\* flight, the context's error when the 5 s pass with one still in flight.
ShutdownReturn ==
    /\ proc = "running" /\ mainPc = "shutdown"
    /\ IF \E c \in Conns : InFlight(c)
       THEN Fatal
       ELSE /\ mainPc' = "closeStmt"
            /\ UNCHANGED <<proc, dbConn, insertFileStmt, listener>>
    /\ UNCHANGED <<mainLog, files, nextId, connVars>>

\* The deferred Close as if its error were fatal.
CloseStmtOrDie ==
    /\ proc = "running" /\ mainPc = "closeStmt"
    /\ insertFileStmt' = "closed"
    /\ \/ /\ mainPc' = "closeDB"
          /\ UNCHANGED proc
       \/ /\ proc' = "fatal"
          /\ UNCHANGED mainPc
    /\ UNCHANGED <<dbConn, listener, mainLog, files, nextId, connVars>>

\* main.go:55-59, the deferred insertFileStmt.Close(), which runs when main
\* returns: the statement is closed; an error of Close is logged.
CloseStmt ==
    /\ proc = "running" /\ mainPc = "closeStmt"
    /\ insertFileStmt' = "closed"
    /\ mainPc' = "closeDB"
    /\ \E err \in BOOLEAN :
        mainLog' = IF err THEN Append(mainLog, "problem closing prepared statement")
                   ELSE mainLog
    /\ UNCHANGED <<proc, dbConn, listener, files, nextId, connVars>>

\* main.go:34-39, the deferred dbConn.Close(), which runs after the
\* statement's: the pool is closed, an error of Close is logged, and main
\* has returned.
CloseDB ==
    /\ proc = "running" /\ mainPc = "closeDB"
    /\ dbConn' = "closed"
    /\ proc' = "exited"
    /\ \E err \in BOOLEAN :
        mainLog' = IF err THEN Append(mainLog, "problem to close db connection")
                   ELSE mainLog
    /\ UNCHANGED <<mainPc, insertFileStmt, listener, files, nextId, connVars>>

\* --------------------------------------------------------------- requests

\* The server accepts request r on connection c and runs the handler chain
\* up to the gateway call, or to its end when the chain makes none.
ServeHTTP(c, r) ==
    /\ proc = "running" /\ listener = "listening"
    /\ pc[c] = "idle"
    /\ req' = [req EXCEPT ![c] = r]
    /\ IF CallsGateway(r)
       THEN /\ pc' = [pc EXCEPT ![c] = "query"]
            /\ UNCHANGED resp
       ELSE /\ pc' = [pc EXCEPT ![c] = "done"]
            /\ resp' = [resp EXCEPT ![c] = Response(r, NoOutcome)]
    /\ UNCHANGED <<mainVars, files, nextId, out, ctxDone>>

\* The client of c goes away: net/http cancels the request's context.
CtxCancel(c) ==
    /\ proc = "running" /\ InFlight(c) /\ ~ctxDone[c]
    /\ ctxDone' = [ctxDone EXCEPT ![c] = TRUE]
    /\ UNCHANGED <<mainVars, files, nextId, pc, req, out, resp>>

\* The row INSERT ... RETURNING id adds for the arguments a.
NewRow(id, a) ==
    [id |-> id, filename |-> a.filename, mime_type |-> a.mime_type,
     size |-> a.size, content |-> a.content]

\* main.go:93-98, insertFileStmt.QueryRowContext executes the statement: the
\* row is inserted and its id is returned.
StmtExecInsert(c) ==
    /\ proc = "running" /\ pc[c] = "query"
    /\ insertFileStmt = "prepared" /\ dbConn = "open" /\ ~ctxDone[c]
    /\ files' = files \cup {NewRow(nextId, InsertArgs(req[c]))}
    /\ nextId' = nextId + 1
    /\ out' = [out EXCEPT ![c] = [kind |-> "ok", id |-> nextId, err |-> "none"]]
    /\ pc' = [pc EXCEPT ![c] = "scan"]
    /\ UNCHANGED <<mainVars, req, ctxDone, resp>>

\* main.go:93-98, the statement is not executed: the context is already
\* cancelled, or the database reports error e.
StmtExecFail(c, e) ==
    /\ proc = "running" /\ pc[c] = "query"
    /\ e = CtxCanceled <=> ctxDone[c]
    /\ out' = [out EXCEPT ![c] = [kind |-> "err", id |-> 0, err |-> e]]
    /\ pc' = [pc EXCEPT ![c] = "scan"]
    /\ UNCHANGED <<mainVars, files, nextId, req, ctxDone, resp>>

\* main.go:93-98, the call into the driver panics; the panic unwinds the
\* handler chain.
StmtPanic(c) ==
    /\ proc = "running" /\ pc[c] = "query"
    /\ out' = [out EXCEPT ![c] = [kind |-> "panic", id |-> 0, err |-> "none"]]
    /\ resp' = [resp EXCEPT ![c] = Response(req[c], out'[c])]
    /\ pc' = [pc EXCEPT ![c] = "done"]
    /\ UNCHANGED <<mainVars, files, nextId, req, ctxDone>>

\* What Scan returns for the executed statement: the rows of a cancelled
\* context are closed, and Scan returns the context's error although the
\* statement has run.
ScanResult(o, cancelled) ==
    IF o.kind = "ok" /\ cancelled THEN [o EXCEPT !.kind = "err", !.err = CtxCanceled]
    ELSE o

\* main.go:98-107, Scan(&fileID), then the response and the return through
\* the chain.
RowScan(c) ==
    /\ proc = "running" /\ pc[c] = "scan"
    /\ out' = [out EXCEPT ![c] = ScanResult(out[c], ctxDone[c])]
    /\ resp' = [resp EXCEPT ![c] = Response(req[c], out'[c])]
    /\ pc' = [pc EXCEPT ![c] = "done"]
    /\ UNCHANGED <<mainVars, files, nextId, req, ctxDone>>

Next ==
    \/ ensureTables
    \/ Prepare
    \/ ListenAndServe
    \/ Shutdown
    \/ ShutdownReturn
    \/ CloseStmt
    \/ CloseDB
    \/ \E c \in Conns : \E r \in Requests : ServeHTTP(c, r)
    \/ \E c \in Conns : CtxCancel(c)
    \/ \E c \in Conns : StmtExecInsert(c)
    \/ \E c \in Conns : \E e \in DbErrors \cup {CtxCanceled} : StmtExecFail(c, e)
    \/ \E c \in Conns : StmtPanic(c)
    \/ \E c \in Conns : RowScan(c)

Spec == Init /\ [][Next]_vars

\* ================================================================= claims

Served(c) == pc[c] # "idle"

Done(c) == pc[c] = "done"

\* The rows the insert of connection c created.
RowsOf(c) == {row \in files : out[c].id # 0 /\ row.id = out[c].id}

\* The middleware layers of a trace, in the order they were entered.
IsLayer(x) == x \in {"logging", "cors", "recovery", "auth", "upload"}

Layers(w) == SelectSeq(w.trace, IsLayer)

IsPrefix(s, t) == Len(s) <= Len(t) /\ SubSeq(t, 1, Len(s)) = s

CORSHeaders ==
    {<<"Access-Control-Allow-Origin", "*">>,
     <<"Access-Control-Allow-Methods", "POST, GET, OPTIONS">>,
     <<"Access-Control-Allow-Headers", "Content-Type">>}

\* Every row was inserted by one request, and by a request that carried
\* the secret.
RowsAccounted ==
    \A row \in files :
        \E c \in Conns : out[c].id = row.id /\ req[c].auth = Secret

\* C1: every request is seen by the layers in the order logging, CORS,
\* recovery, auth, upload handler: the layers a request has entered are the
\* first layers of that order.
C1_ChainOrder ==
    \A c \in Conns :
        Done(c) =>
            IsPrefix(Layers(resp[c]),
                     <<"logging", "cors", "recovery", "auth", "upload">>)

\* C2: every OPTIONS request, whatever its path and Authorization header,
\* is answered 200 with the CORS headers, and neither the auth interceptor
\* nor the upload handler runs for it.
C2_OptionsShortCircuit ==
    \A c \in Conns :
        (Served(c) /\ req[c].method = "OPTIONS") =>
            /\ Done(c)
            /\ resp[c].status = 200
            /\ CORSHeaders \subseteq resp[c].sent
            /\ ~Entered(resp[c], "auth")
            /\ ~Entered(resp[c], "upload")

\* C3: a request whose Authorization header is missing or differs from the
\* secret is answered 401; the upload handler is not invoked for it, it
\* makes no database call and inserts no row.
C3_UnauthorizedRejected ==
    /\ \A c \in Conns :
        (Served(c) /\ req[c].auth # Secret) =>
            /\ Done(c)
            /\ resp[c].status = 401
            /\ ~Entered(resp[c], "upload")
            /\ ~Entered(resp[c], "QueryRowContext")
            /\ out[c] = NoOutcome
    /\ RowsAccounted

\* C3 witness: an upload that would be stored had it carried the secret is
\* answered 401.
C3_Witness ==
    \E c \in Conns :
        /\ Done(c) /\ req[c].auth # Secret /\ resp[c].status = 401
        /\ req[c].method = "POST" /\ req[c].path = "/add" /\ req[c].field = "file"

\* C4: a request answered 201 has caused exactly one row insert, and a
\* request answered 400, 401, 405 or 500 has caused none.
C4_AtMostOnceAllOrNothing ==
    \A c \in Conns :
        Done(c) =>
            /\ resp[c].status = 201 => Cardinality(RowsOf(c)) = 1
            /\ resp[c].status \in {400, 401, 405, 500} => RowsOf(c) = {}

\* C5: every response carries the three CORS headers.
C5_EveryResponseHasCORS ==
    \A c \in Conns :
        Done(c) => CORSHeaders \subseteq resp[c].sent

\* C6: a panic raised inside the upload handler is answered 500 and is not
\* left to propagate out of the chain; the step in which it happens changes
\* neither the process, the listener, the statement, the table nor any
\* other connection.
C6_PanicState ==
    \A c \in Conns :
        out[c].kind = "panic" =>
            /\ Done(c)
            /\ resp[c].status = 500
            /\ ~resp[c].panicking
            /\ RowsOf(c) = {}

C6_PanicStep ==
    \A c \in Conns :
        (out[c].kind # "panic" /\ out'[c].kind = "panic") =>
            /\ UNCHANGED <<mainVars, files, nextId>>
            /\ \A d \in Conns \ {c} :
                /\ pc'[d] = pc[d] /\ req'[d] = req[d] /\ out'[d] = out[d]
                /\ ctxDone'[d] = ctxDone[d] /\ resp'[d] = resp[d]

C6_PanicRecovered == []C6_PanicState /\ [][C6_PanicStep]_vars

\* C6 witness: one request panicked and was answered 500, the process runs
\* and the other request was stored and answered 201.
C6_Witness ==
    \E c \in Conns, d \in Conns :
        /\ out[c].kind = "panic" /\ Done(c) /\ resp[c].status = 500
        /\ proc = "running"
        /\ Done(d) /\ resp[d].status = 201 /\ Cardinality(RowsOf(d)) = 1

\* C7 as stated: every request to /add with a method other than POST is
\* answered 405 and inserts no row; the handler neither parses a form nor
\* calls the database for it.
C7_NonPostIs405 ==
    \A c \in Conns :
        (Served(c) /\ req[c].path = "/add" /\ req[c].method # "POST") =>
            /\ Done(c)
            /\ resp[c].status = 405
            /\ RowsOf(c) = {}
            /\ ~Entered(resp[c], "ParseMultipartForm")
            /\ ~Entered(resp[c], "QueryRowContext")

\* C7 amended: a request to /add with a method other than POST inserts no
\* row, has no form parsed and no database call made; it is answered 405
\* by the upload handler when it carries the secret and is not an OPTIONS
\* request, 401 when it does not carry the secret, and 200 when it is an
\* OPTIONS request that carries the secret.
C7_NonPostNeverStored ==
    \A c \in Conns :
        (Served(c) /\ req[c].path = "/add" /\ req[c].method # "POST") =>
            /\ Done(c)
            /\ RowsOf(c) = {} /\ out[c] = NoOutcome
            /\ ~Entered(resp[c], "ParseMultipartForm")
            /\ ~Entered(resp[c], "QueryRowContext")
            /\ (req[c].auth = Secret /\ req[c].method # "OPTIONS") =>
                    (resp[c].status = 405 /\ Entered(resp[c], "upload"))
            /\ req[c].auth # Secret => resp[c].status = 401
            /\ (req[c].auth = Secret /\ req[c].method = "OPTIONS") =>
                    resp[c].status = 200

\* C7 witness: a GET to /add that carries the secret is answered 405.
C7_Witness ==
    \E c \in Conns :
        /\ Done(c) /\ req[c].path = "/add" /\ req[c].method = "GET"
        /\ req[c].auth = Secret /\ resp[c].status = 405

\* The body of the request is no multipart form, or its form has no file in
\* the field named file.
BadForm(r) == ~r.wellFormed \/ r.field # "file"

\* C8 as stated: every POST to /add whose body is not well-formed multipart
\* form data, or has no file in field file, is answered 400 and inserts no
\* row.
C8_BadFormIs400 ==
    \A c \in Conns :
        (Served(c) /\ req[c].path = "/add" /\ req[c].method = "POST"
            /\ BadForm(req[c])) =>
            /\ Done(c)
            /\ resp[c].status = 400
            /\ RowsOf(c) = {}

\* C8 amended: such a POST inserts no row and makes no database call; it is
\* answered 400 when it carries the secret, and 401 when it does not.
C8_BadFormNeverStored ==
    \A c \in Conns :
        (Served(c) /\ req[c].path = "/add" /\ req[c].method = "POST"
            /\ BadForm(req[c])) =>
            /\ Done(c)
            /\ RowsOf(c) = {} /\ out[c] = NoOutcome
            /\ ~Entered(resp[c], "QueryRowContext")
            /\ req[c].auth = Secret => resp[c].status = 400
            /\ req[c].auth # Secret => resp[c].status = 401

\* C8 witness: a body that is no multipart form, and a form whose file is
\* in another field, both with the secret, are answered 400.
C8_Witness ==
    \E c \in Conns, d \in Conns :
        /\ Done(c) /\ req[c].method = "POST" /\ req[c].path = "/add"
        /\ req[c].auth = Secret /\ ~req[c].wellFormed /\ resp[c].status = 400
        /\ Done(d) /\ req[d].method = "POST" /\ req[d].path = "/add"
        /\ req[d].auth = Secret /\ req[d].field = "doc" /\ resp[d].status = 400

\* The request is a POST to /add whose multipart body, a file part in field
\* file, exceeds the size bound.
Oversize(r) ==
    /\ r.method = "POST" /\ r.path = "/add"
    /\ r.field = "file" /\ Len(r.content) > MaxMemory

Stored(c) == out[c].id # 0

\* C10 as stated: a valid upload has created exactly one new row, with the
\* size the byte length of the submitted content, the content the
\* submitted bytes, and the filename and mimeType the submitted form
\* values; the id returned is that row's id.
C10_RowMatchesUpload ==
    \A c \in Conns :
        Stored(c) =>
            /\ Cardinality(RowsOf(c)) = 1
            /\ \A row \in RowsOf(c) :
                /\ row.id = out[c].id
                /\ row.size = Len(req[c].content)
                /\ row.content = req[c].content
                /\ row.filename = req[c].filename
                /\ row.mime_type = req[c].ctype

\* C10 amended: as stated, but the filename of the row is the last path
\* element of the submitted filename.  The row is new: no other request
\* was returned its id, and the table holds one row per executed insert.
C10_RowMatchesUploadBaseName ==
    /\ \A c \in Conns :
        Stored(c) =>
            /\ Cardinality(RowsOf(c)) = 1
            /\ \A row \in RowsOf(c) :
                /\ row.id = out[c].id
                /\ row.size = Len(req[c].content)
                /\ row.content = req[c].content
                /\ row.filename = <<req[c].filename[Len(req[c].filename)]>>
                /\ row.mime_type = req[c].ctype
            /\ \A d \in Conns \ {c} : out[d].id # out[c].id
    /\ Cardinality(files) = Cardinality({c \in Conns : Stored(c)})

\* C10 witness: two uploads are stored, one of them submitted with a
\* directory in its filename and with content.
C10_Witness ==
    \E c \in Conns, d \in Conns :
        /\ c # d /\ Stored(c) /\ Stored(d) /\ Done(c) /\ Done(d)
        /\ resp[c].status = 201
        /\ Len(req[c].filename) > 1 /\ Len(req[c].content) > 0

\* The identifier a client reads back from the body of a 201 response: the
\* code point of the one character that follows the fixed text.
IdReadFrom(body) == body[Len(body)].rune

\* C11: a successful upload is answered 201 with a body that contains the
\* identifier assigned to the new row, whatever identifier the store
\* assigns: the identifier is read back from the body, and uploads with
\* different identifiers get different bodies.
C11_BodyCarriesId ==
    /\ \A c \in Conns :
        (Done(c) /\ resp[c].status = 201) =>
            /\ Len(resp[c].body) = 1
            /\ IdReadFrom(resp[c].body) = out[c].id
    /\ \A c \in Conns, d \in Conns :
        (Done(c) /\ Done(d) /\ resp[c].status = 201 /\ resp[d].status = 201
            /\ out[c].id # out[d].id) =>
            resp[c].body # resp[d].body

\* C12: the server listens only when the schema-ensure step has succeeded
\* and the insert statement is prepared; a failure of either step ends the
\* process with the listener never started, and no request is served
\* before both steps are done.
C12_ListenState ==
    /\ listener = "listening" =>
            (insertFileStmt = "prepared" /\ mainPc \notin {"ensureTables", "prepare"})
    /\ mainPc \in {"ensureTables", "prepare"} =>
            (listener = "none" /\ \A c \in Conns : ~Served(c))

C12_ListenStep ==
    (listener # "listening" /\ listener' = "listening") =>
        (proc = "running" /\ mainPc = "serve" /\ insertFileStmt = "prepared")

C12_ListenAfterInit == []C12_ListenState /\ [][C12_ListenStep]_vars

\* C12 witness: the server listens with the statement prepared and has
\* answered a request.
C12_Witness ==
    /\ listener = "listening" /\ insertFileStmt = "prepared"
    /\ \E c \in Conns : Done(c)

\* The gateway call of connection c has failed and was answered.
GatewayFailed(c) ==
    Done(c) /\ Entered(resp[c], "QueryRowContext") /\ out[c].kind = "err"

\* C13: a failed gateway insert is answered 500 with a body that does not
\* depend on the error: two failures, whatever their errors, get the same
\* status, headers and body; the error's text is in no part of the body
\* and is in the one error-level log record.
C13_FailureBodyOpaque ==
    /\ \A c \in Conns :
        GatewayFailed(c) =>
            /\ resp[c].status = 500
            /\ \A k \in 1..Len(resp[c].body) : resp[c].body[k].text # out[c].err
            /\ Cardinality({k \in 1..Len(resp[c].logs) :
                    resp[c].logs[k].level = "ERROR"
                        /\ resp[c].logs[k].attr = out[c].err}) = 1
    /\ \A c \in Conns, d \in Conns :
        (GatewayFailed(c) /\ GatewayFailed(d)) =>
            /\ resp[c].status = resp[d].status
            /\ resp[c].body = resp[d].body
            /\ resp[c].sent = resp[d].sent

\* C13 witness: two gateway failures with different errors were answered.
C13_Witness ==
    \E c \in Conns, d \in Conns :
        /\ GatewayFailed(c) /\ GatewayFailed(d)
        /\ out[c].err # out[d].err
        /\ resp[c].status = 500 /\ resp[d].status = 500

\* The 'request completed' lines the logging interceptor wrote for c.
Completed(c) ==
    {k \in 1..Len(resp[c].logs) : resp[c].logs[k].msg = "request completed"}

\* C14: the logging interceptor writes exactly one 'request completed'
\* line for every request the server has answered, whatever the outcome:
\* also for a 401 of auth, for an OPTIONS request answered by CORS and for
\* a recovered panic.
C14_OneLogLinePerRequest ==
    \A c \in Conns :
        Done(c) => Cardinality(Completed(c)) = 1

\* C15: when the process has ended, on whatever path, the statement and
\* the connection it had acquired are released.
C15_ReleasedOnExit ==
    proc # "running" =>
        (dbConn = "closed" /\ insertFileStmt # "prepared")

\* C16: on a graceful shutdown the statement is closed only when the
\* server's Shutdown has returned (the listener is closed and no request is
\* in flight), the connection is closed only after the statement, and a
\* failure to close the statement is logged and leaves the connection to
\* be closed: the process does not end with the statement closed and the
\* connection open.
C16_ReleaseState ==
    /\ mainPc \in {"closeStmt", "closeDB"} =>
            (listener = "closed" /\ \A c \in Conns : ~InFlight(c))
    /\ insertFileStmt = "closed" => mainPc = "closeDB"
    /\ dbConn = "closed" => (insertFileStmt = "closed" /\ proc = "exited")
    /\ (insertFileStmt = "closed" /\ proc # "running") => dbConn = "closed"

C16_ReleaseStep ==
    /\ insertFileStmt' # insertFileStmt /\ insertFileStmt' = "closed" =>
            (mainPc = "closeStmt" /\ dbConn = "open" /\ dbConn' = "open"
                /\ proc' = "running" /\ mainPc' = "closeDB")
    /\ dbConn' # dbConn =>
            (mainPc = "closeDB" /\ insertFileStmt = "closed" /\ dbConn' = "closed")

C16_ReverseOrderRelease == []C16_ReleaseState /\ [][C16_ReleaseStep]_vars

\* C16 witness: the statement's Close failed and was logged, and the
\* process has ended with the connection closed.
C16_Witness ==
    /\ proc = "exited" /\ dbConn = "closed" /\ insertFileStmt = "closed"
    /\ Len(mainLog) > 0 /\ mainLog[1] = "problem closing prepared statement"

\* The upload of connection c is valid and was handled: its insert returned
\* the id and the handler has answered.
Uploaded(c) == Done(c) /\ out[c].kind = "ok"

\* A row without its identifier.
Unnamed(row) ==
    [filename |-> row.filename, mime_type |-> row.mime_type,
     size |-> row.size, content |-> row.content]

\* The part of C17 about the table: whatever the interleaving, every
\* handled upload is answered 201 and has exactly one row, the rows of two
\* uploads have different identifiers, and the rows without their
\* identifiers are the arguments of the requests that ran their insert.
C17_RowsIndependent ==
    /\ \A c \in Conns :
        Uploaded(c) =>
            (resp[c].status = 201 /\ Cardinality(RowsOf(c)) = 1)
    /\ \A c \in Conns, d \in Conns :
        (c # d /\ Stored(c) /\ Stored(d)) => out[c].id # out[d].id
    /\ {Unnamed(row) : row \in files} =
            {InsertArgs(req[c]) : c \in {x \in Conns : Stored(x)}}
    /\ Cardinality(files) = Cardinality({c \in Conns : Stored(c)})

\* C17: concurrent valid uploads are independent: in every interleaving
\* each is answered 201 with its own identifier, distinct from the other's,
\* each has exactly one row, and the rows without their identifiers depend
\* only on the requests.
C17_ConcurrentUploadsIndependent ==
    /\ C17_RowsIndependent
    /\ \A c \in Conns, d \in Conns :
        (c # d /\ Uploaded(c) /\ Uploaded(d)) =>
            resp[c].body # resp[d].body

\* The auth interceptor let the request of connection c through.
PassedAuth(c) == Entered(resp[c], "recovery")

\* C18: the auth interceptor checks the Authorization header against the
\* secret the config provider supplies: whatever the environment holds, a
\* request passes auth exactly when its header equals the AuthSecret that
\* LoadConfig returns for that environment.
C18_AuthUsesConfiguredSecret ==
    \A env \in EnvAuthValues :
        \A c \in Conns :
            Done(c) =>
                (PassedAuth(c) <=> req[c].auth = LoadConfig(env).AuthSecret)

\* C19: a request is in flight only while the statement is prepared and
\* the connection open; the statement handle is set once, from nil, before
\* the listener starts, and is closed, like the connection, only by the
\* deferred calls after Shutdown has returned nil with no request in
\* flight; a process ended by log.Fatalf has closed neither.
C19_StmtState ==
    /\ \A c \in Conns :
        /\ InFlight(c) => (insertFileStmt = "prepared" /\ dbConn = "open")
        /\ Served(c) => insertFileStmt # "nil"
    /\ proc = "fatal" => (dbConn = "open" /\ insertFileStmt # "closed")

C19_StmtStep ==
    /\ insertFileStmt' # insertFileStmt =>
        \/ /\ insertFileStmt = "nil" /\ insertFileStmt' = "prepared"
           /\ listener = "none" /\ mainPc = "prepare"
        \/ /\ insertFileStmt = "prepared" /\ insertFileStmt' = "closed"
           /\ mainPc = "closeStmt" /\ listener = "closed"
           /\ \A c \in Conns : ~InFlight(c)
    /\ dbConn' # dbConn =>
        (mainPc = "closeDB" /\ \A c \in Conns : ~InFlight(c))
    /\ files' # files => (insertFileStmt = "prepared" /\ dbConn = "open")

C19_StmtUsedOnlyWhilePrepared == []C19_StmtState /\ [][C19_StmtStep]_vars

\* C19 witness: an insert has run on the prepared statement, and the
\* statement and the connection were closed after the shutdown.
C19_Witness ==
    /\ proc = "exited" /\ insertFileStmt = "closed" /\ dbConn = "closed"
    /\ \E c \in Conns : Stored(c) /\ Done(c)

\* C20: every answered request has had its status written exactly once, by
\* one layer: by auth (401) or CORS (200) with no inner layer entered, by
\* the mux (404), by the upload handler (one of 201, 400, 405, 500), or by
\* recovery (500), and by recovery only when the chain panicked.
C20_StatusWrittenOnce ==
    \A c \in Conns :
        Done(c) =>
            /\ Len(resp[c].writes) = 1
            /\ resp[c].status = resp[c].writes[1][2]
            /\ LET who  == resp[c].writes[1][1]
                   code == resp[c].writes[1][2]
               IN  /\ who \in {"auth", "cors", "mux", "upload", "recovery"}
                   /\ who = "auth" => (code = 401 /\ resp[c].trace = <<"auth">>)
                   /\ who = "cors" =>
                        (code = 200 /\ ~Entered(resp[c], "logging")
                            /\ ~Entered(resp[c], "upload"))
                   /\ who = "mux" => code = 404
                   /\ who = "upload" => code \in {201, 400, 405, 500}
                   /\ who = "recovery" => code = 500
                   /\ who = "recovery" <=> out[c].kind = "panic"

\* C20 witness: a recovered panic and a stored upload were each answered
\* with one status.
C20_Witness ==
    \E c \in Conns, d \in Conns :
        /\ Done(c) /\ out[c].kind = "panic" /\ resp[c].writes = <<<<"recovery", 500>>>>
        /\ Done(d) /\ resp[d].writes = <<<<"upload", 201>>>>

====
